---- MODULE Spec2Model ----
(***************************************************************************)
(* Cosori kettle BLE protocol: the envelope layer (Envelope::build,        *)
(* Envelope::chunk, Envelope::calculate_checksum in                        *)
(* components/cosori_kettle_ble/envelope.cpp), the frame parser that       *)
(* reads the frames back, and the command session that sequences a command *)
(* through acknowledgment waits, retries and timeouts.                     *)
(*                                                                         *)
(* A byte vector (std::vector<uint8_t>) is a sequence of integers 0..255.  *)
(* A payload pointer is a record [null, bytes]: null is TRUE for nullptr,  *)
(* bytes is the memory behind a non-null pointer.                          *)
(***************************************************************************)
EXTENDS Integers, Sequences, FiniteSets, TLC

VARIABLES
    op,            \* the call made last: "none", "build", "chunk", "parse"
    frame_type,    \* Envelope::build argument (uint8_t)
    seq,           \* Envelope::build argument (uint8_t)
    payload,       \* Envelope::build argument (const uint8_t *)
    payload_len,   \* Envelope::build argument (size_t)
    packet,        \* the vector Envelope::build returned last
    chunk_arg,     \* the vector passed to Envelope::chunk last
    chunks,        \* the vector of vectors Envelope::chunk returned last
    parsed,        \* the result of parsing `packet`
    state,         \* CommandSession: Idle, AwaitHelloAck, AwaitCommandAck, RegistrationRequired
    attempts,      \* CommandSession: attempts made for the frame being awaited
    expected_seq,  \* CommandSession: sequence number the awaited ack must carry
    tx_seq,        \* sequence counter of the connection (mod 256)
    no_response,   \* CommandSession: no-response tally
    tally_at_submit, \* the tally when the command was submitted
    acked,         \* a matching acknowledgment arrived since the submission
    status_seen,   \* an unsolicited status frame arrived since the submission
    result         \* CommandResult reported last

envVars == <<op, frame_type, seq, payload, payload_len, packet, chunk_arg, chunks, parsed>>
sessVars == <<state, attempts, expected_seq, tx_seq, no_response, tally_at_submit, acked, status_seen, result>>
vars == <<envVars, sessVars>>

-----------------------------------------------------------------------------
(* Bounds of the model *)

\* payload lengths 0..MaxLen are enumerated exhaustively
MaxLen == 45
\* vectors of up to MaxChunkInput bytes are passed to Envelope::chunk
MaxChunkInput == 262
\* the no-response tally is explored up to this value
MaxTally == 3
\* the sequence counter starts at 0 and sends are explored up to this count
MaxSends == 12

-----------------------------------------------------------------------------
(* Program constants *)

BLE_CHUNK_SIZE == 20
FRAME_MAGIC == 165
HEADER_SIZE == 6

\* attempts allowed for one frame before the command times out
max_retries == 3

\* conversion to uint16_t
U16(x) == x % 65536

-----------------------------------------------------------------------------
(* Inputs *)

\* frame types seen on the wire (0x12 ack, 0x22 message, 0x20 heating control) and 0xFF
FrameTypes == {18, 32, 34, 255}
\* sequence numbers: the ends of the range and the documented sample (0x1C)
SeqNumbers == {0, 28, 255}
\* first byte of a generated payload
Seeds == {0, 1, 243}

\* a payload of n bytes that are all different from their neighbours
Pattern(seed, n) == [i \in 1..n |-> (seed + 37 * (i - 1)) % 256]

\* payload of the documented "set mytemp to 179" frame: 01 F3 A3 00 B3
SamplePayload == <<1, 243, 163, 0, 179>>

\* lengths around the width of the 16-bit length field
WideLens == {255, 256, 65535, 65536}

NullPtr == [null |-> TRUE, bytes |-> <<>>]
Ptr(b) == [null |-> FALSE, bytes |-> b]

-----------------------------------------------------------------------------
(* Envelope (envelope.cpp) *)

\* calculate_checksum with the high length byte left out of the sum
calculate_checksum_no_len_hi(ft, s, len) ==
    (FRAME_MAGIC + ft + s + (len % 256)) % 256

\* uint8_t Envelope::calculate_checksum(uint8_t frame_type, uint8_t seq, uint16_t payload_len)
calculate_checksum(ft, s, len) ==
    (FRAME_MAGIC + ft + s + (len % 256) + ((len \div 256) % 256)) % 256

\* build with the two length bytes pushed in big-endian order
build_big_endian_length(ft, s, p, n) ==
    LET header == << FRAME_MAGIC,
                     ft,
                     s,
                     (n \div 256) % 256,
                     n % 256,
                     calculate_checksum(ft, s, U16(n)) >>
    IN  IF ~p.null /\ n > 0
        THEN header \o SubSeq(p.bytes, 1, n)
        ELSE header

\* std::vector<uint8_t> Envelope::build(frame_type, seq, payload, payload_len):
\* the six header bytes, then the payload unless the pointer is null or the
\* length is zero.  payload_len is a size_t: the two length bytes keep its low
\* 16 bits, and calculate_checksum receives it converted to uint16_t.
build(ft, s, p, n) ==
    LET header == << FRAME_MAGIC,
                     ft,
                     s,
                     n % 256,
                     (n \div 256) % 256,
                     calculate_checksum(ft, s, U16(n)) >>
    IN  IF ~p.null /\ n > 0
        THEN header \o SubSeq(p.bytes, 1, n)
        ELSE header

\* the loop stopping when no full chunk is left: the tail is dropped
RECURSIVE chunk_loop_drops_tail(_, _, _)
chunk_loop_drops_tail(pkt, i, acc) ==
    IF i + BLE_CHUNK_SIZE <= Len(pkt)
    THEN chunk_loop_drops_tail(pkt, i + BLE_CHUNK_SIZE,
                               Append(acc, SubSeq(pkt, i + 1, i + BLE_CHUNK_SIZE)))
    ELSE acc

\* the loop inserting each chunk at the front of `chunks`
RECURSIVE chunk_loop_prepends(_, _, _)
chunk_loop_prepends(pkt, i, acc) ==
    IF i < Len(pkt)
    THEN LET chunk_size == IF i + BLE_CHUNK_SIZE <= Len(pkt)
                           THEN BLE_CHUNK_SIZE
                           ELSE Len(pkt) - i
         IN  chunk_loop_prepends(pkt, i + BLE_CHUNK_SIZE,
                                 <<SubSeq(pkt, i + 1, i + chunk_size)>> \o acc)
    ELSE acc

\* the loop running while i <= packet.size()
RECURSIVE chunk_loop_inclusive(_, _, _)
chunk_loop_inclusive(pkt, i, acc) ==
    IF i <= Len(pkt)
    THEN LET chunk_size == IF i + BLE_CHUNK_SIZE <= Len(pkt)
                           THEN BLE_CHUNK_SIZE
                           ELSE Len(pkt) - i
         IN  chunk_loop_inclusive(pkt, i + BLE_CHUNK_SIZE,
                                  Append(acc, SubSeq(pkt, i + 1, i + chunk_size)))
    ELSE acc

\* the for loop of Envelope::chunk: i is the loop variable, acc is `chunks`
RECURSIVE chunk_loop(_, _, _)
chunk_loop(pkt, i, acc) ==
    IF i < Len(pkt)
    THEN LET chunk_size == IF i + BLE_CHUNK_SIZE <= Len(pkt)
                           THEN BLE_CHUNK_SIZE
                           ELSE Len(pkt) - i
         IN  chunk_loop(pkt, i + BLE_CHUNK_SIZE,
                        Append(acc, SubSeq(pkt, i + 1, i + chunk_size)))
    ELSE acc

\* std::vector<std::vector<uint8_t>> Envelope::chunk(const std::vector<uint8_t> &packet)
chunk(pkt) ==
    IF pkt = << >> THEN << >> ELSE chunk_loop(pkt, 0, << >>)

-----------------------------------------------------------------------------
(* Frame parser: reads a frame back from bytes *)

NoFrame(why) == [status |-> why, frame_type |-> 0, seq |-> 0, payload |-> << >>]

\* parse(bytes) -> Frame | error: magic byte, little-endian length, 6 + length
\* bytes required, header checksum compared with the computed one
parse(bytes) ==
    IF Len(bytes) >= 1 /\ bytes[1] # FRAME_MAGIC THEN NoFrame("BadMagic")
    ELSE IF Len(bytes) < HEADER_SIZE THEN NoFrame("ShortFrame")
    ELSE LET length == bytes[4] + 256 * bytes[5]
         IN  IF Len(bytes) < HEADER_SIZE + length THEN NoFrame("ShortFrame")
             ELSE IF bytes[6] # calculate_checksum(bytes[2], bytes[3], length)
                  THEN NoFrame("ChecksumMismatch")
                  ELSE [status |-> "ok",
                        frame_type |-> bytes[2],
                        seq |-> bytes[3],
                        payload |-> SubSeq(bytes, HEADER_SIZE + 1, HEADER_SIZE + length)]

-----------------------------------------------------------------------------
(* Calls of the envelope functions *)

\* the (payload, payload_len) pairs a caller passes
PayloadArgs ==
    {<<Ptr(Pattern(sd, n)), n>> : sd \in Seeds, n \in 0..MaxLen}
        \cup {<<Ptr(Pattern(0, n)), n>> : n \in WideLens}
        \cup {<<Ptr(SamplePayload), Len(SamplePayload)>>}
        \cup {<<NullPtr, n>> : n \in 0..MaxLen}

NotParsed == NoFrame("none")

SessionIdle ==
    /\ state = "Idle"
    /\ attempts = 0
    /\ expected_seq = 0
    /\ tx_seq = 0
    /\ no_response = 0
    /\ tally_at_submit = 0
    /\ acked = FALSE
    /\ status_seen = FALSE
    /\ result = "None"

\* the arguments of the call are chosen; nothing has been called yet
Init ==
    /\ op = "none"
    /\ frame_type \in FrameTypes
    /\ seq \in SeqNumbers
    /\ \E a \in PayloadArgs : payload = a[1] /\ payload_len = a[2]
    /\ packet = << >>
    /\ chunk_arg = << >>
    /\ chunks = << >>
    /\ parsed = NotParsed
    /\ SessionIdle

\* packet = Envelope::build(frame_type, seq, payload, payload_len)
Build ==
    /\ packet' = build(frame_type, seq, payload, payload_len)
    /\ op' = "build"
    /\ UNCHANGED <<frame_type, seq, payload, payload_len, chunk_arg, chunks, parsed>>
    /\ UNCHANGED sessVars

\* chunks = Envelope::chunk(packet)
ChunkPacket ==
    /\ Len(packet) <= MaxChunkInput
    /\ chunk_arg' = packet
    /\ chunks' = chunk(packet)
    /\ op' = "chunk"
    /\ UNCHANGED <<frame_type, seq, payload, payload_len, packet, parsed>>
    /\ UNCHANGED sessVars

\* chunks = Envelope::chunk(v) for a vector v that is no built frame
ChunkBytes ==
    /\ Len(payload.bytes) <= MaxChunkInput
    /\ chunk_arg' = payload.bytes
    /\ chunks' = chunk(payload.bytes)
    /\ op' = "chunk"
    /\ UNCHANGED <<frame_type, seq, payload, payload_len, packet, parsed>>
    /\ UNCHANGED sessVars

\* parsed = parse(packet)
Parse ==
    /\ packet # << >>
    /\ parsed' = parse(packet)
    /\ op' = "parse"
    /\ UNCHANGED <<frame_type, seq, payload, payload_len, packet, chunk_arg, chunks>>
    /\ UNCHANGED sessVars

Next == Build \/ ChunkPacket \/ ChunkBytes \/ Parse

Spec == Init /\ [][Next]_vars

-----------------------------------------------------------------------------
(* Properties of Envelope::chunk *)

CeilDiv(a, b) == (a + b - 1) \div b

RECURSIVE Concat(_)
Concat(ss) == IF ss = << >> THEN << >> ELSE Head(ss) \o Concat(Tail(ss))

\* C1: for every non-empty packet of n bytes, chunk returns exactly
\* ceil(n / 20) chunks and every chunk has at most 20 bytes.
C1_ChunkCount ==
    (op = "chunk" /\ chunk_arg # << >>) =>
        /\ Len(chunks) = CeilDiv(Len(chunk_arg), BLE_CHUNK_SIZE)
        /\ \A k \in 1..Len(chunks) : Len(chunks[k]) <= BLE_CHUNK_SIZE

\* a 41-byte packet was split into three chunks
C1_Witness ==
    op = "chunk" /\ Len(chunk_arg) = 41 /\ Len(chunks) = 3

\* C2: the chunks concatenated in the order returned are exactly the packet.
C2_ChunksConcatenate ==
    op = "chunk" => Concat(chunks) = chunk_arg

\* a built frame of more than two chunks was split and joins back to itself
C2_Witness ==
    /\ op = "chunk"
    /\ chunk_arg = packet
    /\ Len(chunks) >= 3
    /\ Concat(chunks) = packet

\* C10: chunk never returns an empty chunk: no chunk for an empty packet, one
\* chunk equal to the packet for 1..20 bytes, and otherwise every chunk but
\* the last has exactly 20 bytes and the last has 1..20 (20 for a multiple of 20).
C10_ChunkShapes ==
    op = "chunk" =>
        LET n == Len(chunk_arg)
            m == Len(chunks)
        IN  /\ \A k \in 1..m : chunks[k] # << >>
            /\ n = 0 => chunks = << >>
            /\ (1 <= n /\ n <= BLE_CHUNK_SIZE) => chunks = <<chunk_arg>>
            /\ n > BLE_CHUNK_SIZE =>
                 /\ m >= 2
                 /\ \A k \in 1..(m - 1) : Len(chunks[k]) = BLE_CHUNK_SIZE
                 /\ 1 <= Len(chunks[m]) /\ Len(chunks[m]) <= BLE_CHUNK_SIZE
                 /\ (n % BLE_CHUNK_SIZE = 0) => Len(chunks[m]) = BLE_CHUNK_SIZE

\* a 40-byte packet was split into two full chunks
C10_Witness ==
    op = "chunk" /\ Len(chunk_arg) = 40 /\ Len(chunks) = 2 /\ Len(chunks[2]) = 20

-----------------------------------------------------------------------------
(* Properties of Envelope::build *)

Built == packet # << >>

\* the length the two length bytes of a frame declare
LengthField(pkt) == pkt[4] + 256 * pkt[5]

\* C3: for every call of build, the little-endian length field equals the
\* number of payload bytes that follow the 6-byte header.
C3_LengthFieldMatches ==
    Built => LengthField(packet) = Len(packet) - HEADER_SIZE

\* C4: build produces no frame for a payload whose length does not fit the
\* 16-bit length field.
C4_OversizedRejected ==
    payload_len > 65535 => ~Built

\* C5: for frame type 0x22, sequence 0x1C and the payload 01 F3 A3 00 B3 the
\* checksum byte at header offset 5 is 0xCD, as in the captured frame.
C5_SampleChecksum ==
    (Built /\ frame_type = 34 /\ seq = 28 /\ payload = Ptr(SamplePayload) /\ payload_len = 5) =>
        /\ packet[6] = 205
        /\ calculate_checksum(frame_type, seq, payload_len) = 205

\* sum of s[lo..hi], by halves
RECURSIVE SumRange(_, _, _)
SumRange(s, lo, hi) ==
    IF lo > hi THEN 0
    ELSE IF lo = hi THEN s[lo]
    ELSE LET mid == (lo + hi) \div 2
         IN  SumRange(s, lo, mid) + SumRange(s, mid + 1, hi)

\* C7: the checksum byte of every built frame is the sum modulo 256 of the
\* five other header bytes and all payload bytes.
C7_ChecksumCoversPayload ==
    (Built /\ ~payload.null /\ payload_len <= 65535) =>
        packet[6] = (SumRange(packet, 1, 5) + SumRange(packet, HEADER_SIZE + 1, Len(packet))) % 256

-----------------------------------------------------------------------------
(* Command session: Idle -> AwaitHelloAck -> AwaitCommandAck -> Idle *)

AwaitStates == {"AwaitHelloAck", "AwaitCommandAck"}

\* the frames sent so far on the connection (the counter has not wrapped)
CanSend == tx_seq < MaxSends

\* a frame is sent with the next sequence number, which the ack must carry
SendFrame ==
    /\ expected_seq' = tx_seq
    /\ tx_seq' = (tx_seq + 1) % 256

\* deadline expiry with every attempt used: the tally is left as it was
ExhaustedKeepsTally ==
    /\ result' = "CommandTimedOut"
    /\ state' = "Idle"
    /\ UNCHANGED <<attempts, expected_seq, tx_seq, no_response>>

\* deadline expiry with every attempt used: report CommandTimedOut, reset to
\* Idle and increment the no-response tally
Exhausted ==
    /\ result' = "CommandTimedOut"
    /\ state' = "Idle"
    /\ no_response' = no_response + 1
    /\ UNCHANGED <<attempts, expected_seq, tx_seq>>

\* deadline expiry with attempts left: increment attempts, resend with a new
\* sequence number and reset the deadline
Retry ==
    /\ attempts' = attempts + 1
    /\ SendFrame
    /\ UNCHANGED <<state, no_response, result>>

\* submit a command while Idle; with a registration key on a new connection
\* a Hello frame goes first
Submit(hello) ==
    /\ state = "Idle"
    /\ CanSend
    /\ no_response < MaxTally
    /\ state' = IF hello THEN "AwaitHelloAck" ELSE "AwaitCommandAck"
    /\ attempts' = 1
    /\ SendFrame
    /\ tally_at_submit' = no_response
    /\ acked' = FALSE
    /\ status_seen' = FALSE
    /\ result' = "Pending"
    /\ UNCHANGED no_response
    /\ UNCHANGED envVars

\* submit while a session is active: rejected with Busy
SubmitBusy ==
    /\ state \in AwaitStates
    /\ result' = "Busy"
    /\ UNCHANGED <<state, attempts, expected_seq, tx_seq, no_response,
                   tally_at_submit, acked, status_seen>>
    /\ UNCHANGED envVars

\* the ack of the Hello frame arrives with the expected sequence: on success the
\* command frame is sent, on key-invalid the session ends in RegistrationRequired
HelloAck(ok) ==
    /\ state = "AwaitHelloAck"
    /\ acked' = TRUE
    /\ IF ok
       THEN /\ CanSend
            /\ state' = "AwaitCommandAck"
            /\ attempts' = 1
            /\ SendFrame
            /\ no_response' = 0
            /\ UNCHANGED result
       ELSE /\ state' = "RegistrationRequired"
            /\ result' = "RegistrationRequired"
            /\ UNCHANGED <<attempts, expected_seq, tx_seq, no_response>>
    /\ UNCHANGED <<tally_at_submit, status_seen>>
    /\ UNCHANGED envVars

\* the ack of the command arrives with the expected sequence
CommandAck ==
    /\ state = "AwaitCommandAck"
    /\ state' = "Idle"
    /\ result' = "Success"
    /\ no_response' = 0
    /\ acked' = TRUE
    /\ UNCHANGED <<attempts, expected_seq, tx_seq, tally_at_submit, status_seen>>
    /\ UNCHANGED envVars

\* a status frame whose sequence matches no pending wait: delivered as a status
\* update, resets the tally, leaves the session where it is
UnsolicitedStatus ==
    /\ no_response' = 0
    /\ status_seen' = TRUE
    /\ UNCHANGED <<state, attempts, expected_seq, tx_seq, tally_at_submit, acked, result>>
    /\ UNCHANGED envVars

\* the deadline of the awaited frame passes without a matching ack
DeadlineExpired ==
    /\ state \in AwaitStates
    /\ IF attempts < max_retries
       THEN CanSend /\ Retry
       ELSE Exhausted
    /\ UNCHANGED <<tally_at_submit, acked, status_seen>>
    /\ UNCHANGED envVars

\* abort the active command: Idle, the tally is not touched
Abort ==
    /\ state \in AwaitStates
    /\ state' = "Idle"
    /\ result' = "Aborted"
    /\ UNCHANGED <<attempts, expected_seq, tx_seq, no_response,
                   tally_at_submit, acked, status_seen>>
    /\ UNCHANGED envVars

\* the caller supplies new credentials after RegistrationRequired
NewCredentials ==
    /\ state = "RegistrationRequired"
    /\ state' = "Idle"
    /\ UNCHANGED <<attempts, expected_seq, tx_seq, no_response,
                   tally_at_submit, acked, status_seen, result>>
    /\ UNCHANGED envVars

\* a connection with no command submitted and no envelope call made
SessionInit ==
    /\ op = "none"
    /\ frame_type = 34
    /\ seq = 0
    /\ payload = NullPtr
    /\ payload_len = 0
    /\ packet = << >>
    /\ chunk_arg = << >>
    /\ chunks = << >>
    /\ parsed = NotParsed
    /\ SessionIdle

SessionNext ==
    \/ \E hello \in BOOLEAN : Submit(hello)
    \/ SubmitBusy
    \/ \E ok \in BOOLEAN : HelloAck(ok)
    \/ CommandAck
    \/ UnsolicitedStatus
    \/ DeadlineExpired
    \/ Abort
    \/ NewCredentials

SessionSpec == SessionInit /\ [][SessionNext]_vars

-----------------------------------------------------------------------------
(* Properties of the command session *)

\* the step that reports CommandTimedOut
TimedOutStep == state \in AwaitStates /\ result' = "CommandTimedOut"

\* C8: when no matching ack arrives on any of the max_retries attempts, the
\* session reports CommandTimedOut, is Idle, and the no-response tally is
\* exactly one higher than before the submission.
C8_TallyOneAboveSubmission ==
    [][(TimedOutStep /\ ~acked) =>
          /\ state' = "Idle"
          /\ no_response' = tally_at_submit + 1]_vars

\* C8 as amended: the timeout is reported only when all max_retries attempts
\* were made, the session is then Idle and the tally is one higher than just
\* before the report; it is one higher than before the submission when no
\* unsolicited status frame arrived in between; a retry leaves the tally alone.
C8_TallyOneAboveLast ==
    [][/\ TimedOutStep =>
             /\ attempts = max_retries
             /\ state' = "Idle"
             /\ no_response' = no_response + 1
             /\ (~acked /\ ~status_seen) => no_response' = tally_at_submit + 1
       /\ (state \in AwaitStates /\ attempts' = attempts + 1) =>
             /\ no_response' = no_response
             /\ state' = state
             /\ result' # "CommandTimedOut"]_vars

\* a command timed out with nothing received: the tally went from 1 to 2
C8_Witness ==
    /\ result = "CommandTimedOut"
    /\ state = "Idle"
    /\ attempts = max_retries
    /\ ~acked /\ ~status_seen
    /\ tally_at_submit = 1
    /\ no_response = 2

====
